---- MODULE Spec2Model ----
(***************************************************************************)
(* A model of run_asr_SLT_kfold.py: the orthography normaliser, the CTC    *)
(* data collator, CTCTrainer.training_step and the k-fold loop of main().  *)
(*                                                                         *)
(* Python str values that the code takes apart are modelled as sequences   *)
(* of one-character strings, an Optional value as None (the empty tuple)   *)
(* or Some(v) (the tuple of v), and floats that the code only adds,        *)
(* divides and compares as exact rationals [num, den].                     *)
(***************************************************************************)
EXTENDS Integers, Sequences, FiniteSets, TLC

VARIABLES
    \* ---- main() -------------------------------------------------------
    pc,             \* position of main()
    model_args,     \* ModelArguments (verbose_logging)
    data_args,      \* DataTrainingArguments (the fields main reads)
    training_args,  \* TrainingArguments (the fields main / the step read)
    model_config,   \* the pretrained model's config (ctc_loss_reduction)
    df,             \* the corpus table, rows [file, split, text]
    base_dir,       \* training_args.output_dir as parsed (line 338)
    orthography,    \* result of Orthography.from_name (line 355)
    i,              \* the fold loop variable (line 357)
    loaded,         \* folds whose iteration loaded processor and model
    train_dataset,  \* line 372 onwards
    val_dataset,    \* line 373 onwards
    mapped,         \* the rows datasets.map has produced so far
    target_sr,      \* line 378
    text_updates,   \* line 386
    log,            \* what logger.warning/info/debug emitted
    trainers,       \* CTCTrainer instances built: [fold, output_dir]
    steps,          \* training steps run in the current fold
    error,          \* the exception that ended the program, or NoError
    \* ---- Orthography.preprocess_for_training applied repeatedly --------
    pp_name,        \* the name given to from_name
    pp_trace,       \* <<t, f(t), f(f(t)), ...>>
    \* ---- DataCollatorCTCWithPadding.__call__ -----------------------------
    features,       \* the list of examples given to the collator
    batch,          \* what it returned
    \* ---- CTCTrainer.training_step --------------------------------------
    trainer,        \* the trainer's attributes the step reads
    step            \* outcome of the last training_step call

mainVars == <<pc, model_args, data_args, training_args, model_config, df, base_dir,
              orthography, i, loaded, train_dataset, val_dataset, mapped,
              target_sr, text_updates, log, trainers, steps, error>>
orthVars == <<pp_name, pp_trace>>
collVars == <<features, batch>>
stepVars == <<trainer, step>>
vars == <<mainVars, orthVars, collVars, stepVars>>

None == << >>
Some(v) == <<v>>
Val(o) == o[1]

(***************************************************************************)
(* Bounds of the model.                                                    *)
(***************************************************************************)
MaxLen == 4         \* longest transcript given to preprocess_for_training
MaxApply == 2       \* applications of preprocess_for_training in a row

(***************************************************************************)
(* Generic helpers.                                                        *)
(***************************************************************************)
SeqsUpTo(S, n) == UNION {[1..m -> S] : m \in 0..n}

RECURSIVE SumSeq(_)
SumSeq(s) == IF s = << >> THEN 0 ELSE s[1] + SumSeq(Tail(s))

RECURSIVE Concat(_)
Concat(ss) == IF ss = << >> THEN << >> ELSE ss[1] \o Concat(Tail(ss))

Max(S) == CHOOSE x \in S : \A y \in S : y <= x

(***************************************************************************)
(* Python str operations used by the program.                              *)
(***************************************************************************)
\* The characters transcripts are drawn from: letters (enough to spell the
\* word "sil"), the hyphen, and two kinds of whitespace.
Letters == {"s", "i", "l"}
Whitespace == {" ", "\t"}
Chars == Letters \cup Whitespace \cup {"-"}

\* str.translate(table): a character in the table is replaced by its image.
Translate(text, table) ==
    Concat([k \in 1..Len(text) |->
              IF text[k] \in DOMAIN table THEN table[text[k]] ELSE <<text[k]>>])

\* str.split() without arguments: the maximal runs of non-whitespace.
RECURSIVE SplitFrom(_, _, _)
SplitFrom(text, cur, acc) ==
    IF text = << >>
    THEN IF cur = << >> THEN acc ELSE Append(acc, cur)
    ELSE IF text[1] \in Whitespace
         THEN SplitFrom(Tail(text), << >>,
                        IF cur = << >> THEN acc ELSE Append(acc, cur))
         ELSE SplitFrom(Tail(text), Append(cur, text[1]), acc)

Split(text) == SplitFrom(text, << >>, << >>)

\* " ".join(words)
RECURSIVE Join(_)
Join(words) ==
    IF words = << >> THEN << >>
    ELSE IF Len(words) = 1 THEN words[1]
    ELSE words[1] \o <<" ">> \o Join(Tail(words))

RECURSIVE Keep(_, _)
Keep(words, remove) ==
    IF words = << >> THEN << >>
    ELSE IF words[1] \in remove THEN Keep(Tail(words), remove)
    ELSE <<words[1]>> \o Keep(Tail(words), remove)

(***************************************************************************)
(* class Orthography                                                       *)
(***************************************************************************)
NoTable == [c \in {} |-> << >>]
DashToSpace == [c \in {"-"} |-> <<" ">>]        \* str.maketrans({"-": " "})

\* The dataclass defaults (lines 153-157).
DefaultOrthography ==
    [do_lower_case |-> FALSE, vocab_file |-> None, word_delimiter_token |-> "|",
     translation_table |-> NoTable, words_to_remove |-> {}]

\* cls(...) of lines 164-168 and of lines 170-178.
Timit ==
    [DefaultOrthography EXCEPT !.do_lower_case = TRUE,
                               !.translation_table = DashToSpace]
Buckwalter ==
    [DefaultOrthography EXCEPT !.vocab_file = Some("vocab/buckwalter.json"),
                               !.word_delimiter_token = "/",
                               !.translation_table = DashToSpace,
                               !.words_to_remove = {<<"s", "i", "l">>}]

SupportedNames == {"librispeech", "timit", "buckwalter"}
OrthographyNames == SupportedNames \cup {"Timit", "common_voice"}

\* A variant that falls back to the default scheme for an unknown name.
FromName_fallback(name) ==
    IF name = "timit" THEN Some(Timit)
    ELSE IF name = "buckwalter" THEN Some(Buckwalter)
    ELSE Some(DefaultOrthography)

\* Orthography.from_name: Some(policy), or None where the code raises
\* ValueError (line 179).
FromName(name) ==
    IF name = "librispeech" THEN Some(DefaultOrthography)
    ELSE IF name = "timit" THEN Some(Timit)
    ELSE IF name = "buckwalter" THEN Some(Buckwalter)
    ELSE None

\* A variant that drops the stop words before it translates the hyphens.
PreprocessForTraining_translate_last(self, text) ==
    LET kept == IF self.words_to_remove = {}
                THEN Join(Split(text))
                ELSE Join(Keep(Split(text), self.words_to_remove))
    IN  IF DOMAIN self.translation_table # {}
        THEN Translate(kept, self.translation_table)
        ELSE kept

\* Orthography.preprocess_for_training
PreprocessForTraining(self, text) ==
    LET translated == IF DOMAIN self.translation_table # {}
                      THEN Translate(text, self.translation_table)
                      ELSE text
    IN  IF self.words_to_remove = {}
        THEN Join(Split(translated))
        ELSE Join(Keep(Split(translated), self.words_to_remove))

(***************************************************************************)
(* class DataCollatorCTCWithPadding                                        *)
(***************************************************************************)
MaxBatch == 2       \* examples in one batch
MaxLabelLen == 2    \* label ids of one example

IgnoreIndex == -100     \* the value written over label padding
PadTokenId == 0         \* processor.tokenizer.pad_token_id
PaddingValue == 0       \* the feature extractor's padding value
LabelIds == {0, 1}      \* token ids of the vocabulary; PadTokenId is one
InputLens == {1, 2}     \* lengths of input_values in the model
Sample == 7             \* a waveform sample (its value is never inspected)

Example(n, labels) == [input_values |-> [k \in 1..n |-> Sample], labels |-> labels]
Examples == {Example(n, l) : n \in InputLens, l \in SeqsUpTo(LabelIds, MaxLabelLen)}
FeatureLists == UNION {[1..b -> Examples] : b \in 1..MaxBatch}

\* The collator as main() constructs it: padding=True, every other field None.
DataCollator ==
    [padding |-> TRUE, max_length |-> None, max_length_labels |-> None,
     pad_to_multiple_of |-> None, pad_to_multiple_of_labels |-> None]

\* processor.pad with padding=True (the longest sequence of the batch, rounded
\* up to pad_to_multiple_of when that is set; max_length is then not used):
\* right-pads every row with `value` and returns the rows with their mask.
PaddedLength(rows, multiple) ==
    LET longest == Max({Len(rows[r]) : r \in DOMAIN rows})
    IN  IF multiple # None /\ longest % Val(multiple) # 0
        THEN ((longest \div Val(multiple)) + 1) * Val(multiple)
        ELSE longest

Pad(rows, value, multiple) ==
    LET n == PaddedLength(rows, multiple)
    IN  [values |-> [r \in DOMAIN rows |->
                        [k \in 1..n |-> IF k <= Len(rows[r]) THEN rows[r][k] ELSE value]],
         attention_mask |-> [r \in DOMAIN rows |->
                        [k \in 1..n |-> IF k <= Len(rows[r]) THEN 1 ELSE 0]]]

\* tensor.masked_fill(mask, value): a new tensor.
MaskedFill(tensor, mask, value) ==
    [r \in DOMAIN tensor |->
        [k \in DOMAIN tensor[r] |-> IF mask[r][k] THEN value ELSE tensor[r][k]]]

\* A variant that recognises padding by the pad token id instead of the mask.
Collate_mask_by_id(self, feats) ==
    LET input_features == [f \in DOMAIN feats |-> feats[f].input_values]
        label_features == [f \in DOMAIN feats |-> feats[f].labels]
        b == Pad(input_features, PaddingValue, self.pad_to_multiple_of)
        labels_batch == Pad(label_features, PadTokenId, self.pad_to_multiple_of_labels)
        labels == MaskedFill(labels_batch.values,
                     [r \in DOMAIN labels_batch.values |->
                        [k \in DOMAIN labels_batch.values[r] |->
                            labels_batch.values[r][k] = PadTokenId]],
                     IgnoreIndex)
    IN  [input_values |-> b.values, attention_mask |-> b.attention_mask,
         labels |-> labels]

\* DataCollatorCTCWithPadding.__call__
Collate(self, feats) ==
    LET input_features == [f \in DOMAIN feats |-> feats[f].input_values]
        label_features == [f \in DOMAIN feats |-> feats[f].labels]
        b == Pad(input_features, PaddingValue, self.pad_to_multiple_of)
        labels_batch == Pad(label_features, PadTokenId, self.pad_to_multiple_of_labels)
        labels == MaskedFill(labels_batch.values,
                     [r \in DOMAIN labels_batch.values |->
                        [k \in DOMAIN labels_batch.values[r] |->
                            labels_batch.attention_mask[r][k] # 1]],
                     IgnoreIndex)
    IN  [input_values |-> b.values, attention_mask |-> b.attention_mask,
         labels |-> labels]

NoBatch == [input_values |-> << >>, attention_mask |-> << >>, labels |-> << >>]

(***************************************************************************)
(* class CTCTrainer                                                        *)
(***************************************************************************)
MaxGpu == 2         \* largest n_gpu

R(n, d) == [num |-> n, den |-> d]       \* the number n/d; d = 0 is inf/nan
NoException == ""

ReductionNames == {"mean", "sum", "max"}
AccumulationSteps == {1, 2, 4}
LossValues == {1, 2, 4}                 \* per-replica loss values
MainLossValues == {2, 4}                \* those drawn inside main()

\* What the surrounding Trainer passes as `model`: with n_gpu > 1 the model
\* wrapped in torch.nn.DataParallel, which has the attribute `module` and not
\* `config`; otherwise the model itself, which has `config` and not `module`.
WrapModel(config, n_gpu) ==
    IF n_gpu > 1
    THEN [class |-> "DataParallel", module |-> [config |-> config]]
    ELSE [class |-> "Wav2Vec2ForCTC", config |-> config]

HasAttr(obj, name) == name \in DOMAIN obj

\* compute_loss: a vector with one loss per replica under DataParallel, a
\* scalar otherwise (a scalar is a vector of length 1 here).
LossVectors(model, n_gpu, values) ==
    IF model.class = "DataParallel"
    THEN UNION {[1..r -> values] : r \in 1..n_gpu}
    ELSE [1..1 -> values]

\* A variant that counts the labels above zero.
LabelCounts_positive(x) == x > 0

\* inputs["labels"] >= 0 (line 312) on one label position.
LabelCounts(x) == x >= 0

\* (inputs["labels"] >= 0).sum()
CountLabels(labels) ==
    SumSeq([r \in DOMAIN labels |->
              Cardinality({k \in DOMAIN labels[r] : LabelCounts(labels[r][k])})])

\* A variant that multiplies by the number of accumulation steps.
Accumulate_times(loss, n) ==
    IF n > 1 THEN R(loss.num * n, loss.den) ELSE loss

\* Lines 317-318.
Accumulate(loss, n) ==
    IF n > 1 THEN R(loss.num, loss.den * n) ELSE loss

\* A variant that asks for apex before the native scaler.
Backward_apex_first(self, loss) ==
    IF self.use_apex THEN [route |-> "apex", loss |-> loss]
    ELSE IF self.use_cuda_amp THEN [route |-> "scaler", loss |-> loss]
    ELSE IF self.deepspeed THEN [route |-> "deepspeed", loss |-> loss]
    ELSE [route |-> "plain", loss |-> loss]

\* Lines 320-328: the backward call made, as [route, loss].
Backward(self, loss) ==
    IF self.use_cuda_amp THEN [route |-> "scaler", loss |-> loss]
    ELSE IF self.use_apex THEN [route |-> "apex", loss |-> loss]
    ELSE IF self.deepspeed THEN [route |-> "deepspeed", loss |-> loss]
    ELSE [route |-> "plain", loss |-> loss]

\* Lines 302-306: the calls made to compute the loss.
ComputeLossCalls(self) ==
    IF self.use_cuda_amp
    THEN <<"autocast.enter", "compute_loss", "autocast.exit">>
    ELSE <<"compute_loss">>

\* What one call of training_step did: the exception it raised (or None),
\* the calls it made, `loss` after line 306, after line 315, the backward
\* calls and the value returned.
StepResult(raised, calls, computed, reduced, backward, returned) ==
    [raised |-> raised, calls |-> calls, computed |-> computed,
     reduced |-> reduced, backward |-> backward, returned |-> returned]

\* CTCTrainer.training_step(model, inputs) where compute_loss returns `losses`.
TrainingStep(self, model, inputs, losses) ==
    LET calls == <<"model.train", "_prepare_inputs">> \o ComputeLossCalls(self)
        fail(exc) == StepResult(exc, calls, losses, None, << >>, None)
        ok(loss, backward, returned) ==
            StepResult(NoException, calls, losses, Some(loss), backward, Some(returned))
        finish(loss) ==
            LET scaled == Accumulate(loss, self.args.gradient_accumulation_steps)
            IN  ok(loss, <<Backward(self, scaled)>>, scaled)
    IN  IF self.args.n_gpu > 1
        THEN IF ~HasAttr(model, "module")
             THEN fail("AttributeError")                            \* line 309
             ELSE IF model.module.config.ctc_loss_reduction = "mean"
             THEN finish(R(SumSeq(losses), Len(losses)))
             ELSE IF model.module.config.ctc_loss_reduction = "sum"
             THEN finish(R(SumSeq(losses),
                           CountLabels(inputs.labels)))
             ELSE IF HasAttr(model, "config")                       \* line 315
                  THEN fail("ValueError")
                  ELSE fail("AttributeError")
        ELSE finish(R(losses[1], 1))

NoStep == StepResult(NoException, << >>, << >>, None, << >>, None)

(***************************************************************************)
(* main(): helpers                                                         *)
(***************************************************************************)
MaxSteps == 1       \* training steps modelled in one fold

K == 4                              \* k, line 356
FirstFold == 2                      \* range(2, k), line 357
LoadSampleRate == 16000             \* librosa.load(..., sr=16000), line 390
FeatureExtractorSamplingRate == 16000   \* the checkpoint's feature extractor

\* str(n) for n >= 0
Digit(d) == <<"0", "1", "2", "3", "4", "5", "6", "7", "8", "9">>[d + 1]

RECURSIVE Str(_)
Str(n) == IF n < 10 THEN <<Digit(n)>> ELSE Str(n \div 10) \o <<Digit(n % 10)>>

\* s.replace(old, new): every occurrence of old, left to right.
RECURSIVE Replace(_, _, _)
Replace(s, old, new) ==
    IF Len(s) < Len(old) \/ old = << >> THEN s
    ELSE IF SubSeq(s, 1, Len(old)) = old
         THEN new \o Replace(SubSeq(s, Len(old) + 1, Len(s)), old, new)
         ELSE <<s[1]>> \o Replace(Tail(s), old, new)

FoldSuffix(n) == <<"_", "f", "o", "l", "d", "_">> \o Str(n)     \* "_fold_" + str(n)

\* Lines 490-494: the output directory of fold n, from the current one.
NextOutputDir(output_dir, n) ==
    IF n = 0
    THEN output_dir \o FoldSuffix(n)
    ELSE Replace(output_dir, FoldSuffix(n - 1), FoldSuffix(n))

\* str.lower() on the orthography names of the model.
Lower(name) == IF name = "Timit" THEN "timit" ELSE name

\* The corpus: the audio files, what librosa.load decodes from each, and the
\* transcript of each.
Files == <<"a.wav", "b.wav", "c.wav">>
Audio(file) ==
    CASE file = "a.wav" -> <<Sample>>
      [] file = "b.wav" -> <<Sample, Sample>>
      [] file = "c.wav" -> <<Sample, Sample, Sample>>
Transcript(file) ==
    CASE file = "a.wav" -> <<"s", "i", "l">>
      [] file = "b.wav" -> <<"s", "-", "l">>
      [] file = "c.wav" -> <<"s", " ", "l">>
Splits == {0, 2, 3}
Corpora ==
    {[r \in DOMAIN Files |->
        [file |-> Files[r], split |-> sp[r], text |-> Transcript(Files[r])]]
     : sp \in [DOMAIN Files -> Splits]}

\* The single characters of the tokenizer's vocabulary, and its ids.
VocabChars == Letters
TokenId(c) == CASE c = "s" -> 1 [] c = "i" -> 2 [] c = "l" -> 3 [] OTHER -> 4
Tokenize(text) == [k \in DOMAIN text |-> TokenId(text[k])]

\* vocabulary_text_cleaner.sub("", text), lines 381-385 and 394.
CleanText(text) == SelectSeq(text, LAMBDA c : c \in VocabChars \cup Whitespace)

RatLeq(a, b) == a.num * b.den <= b.num * a.den      \* a <= b, den > 0

\* prepare_example, lines 388-398, on a row once target_sr is a number; the
\* columns "file" and "split" are removed by map (lines 400-403).
PreparedExample(row, policy, sr) ==
    [speech |-> Audio(row.file),
     sampling_rate |-> LoadSampleRate,
     duration_in_seconds |-> R(Len(Audio(row.file)), sr),
     text |-> CleanText(PreprocessForTraining(policy, row.text))]

\* A variant that drops the examples as long as the threshold too.
FilterByMaxDuration_strict(example, max_duration) ==
    /\ RatLeq(example.duration_in_seconds, max_duration)
    /\ ~RatLeq(max_duration, example.duration_in_seconds)

\* filter_by_max_duration, lines 407-408.
FilterByMaxDuration(example, max_duration) ==
    RatLeq(example.duration_in_seconds, max_duration)

\* prepare_dataset, lines 433-444, on one example of a batch.
EncodedExample(example) ==
    [speech |-> example.speech,
     sampling_rate |-> example.sampling_rate,
     duration_in_seconds |-> example.duration_in_seconds,
     text |-> example.text,
     input_values |-> example.speech,
     labels |-> Tokenize(example.text)]

\* CTCTrainer(args=training_args, ...), lines 496-504, with the mixed
\* precision and deepspeed options of the Trainer left at their defaults.
MakeTrainer(args) ==
    [use_cuda_amp |-> FALSE, use_apex |-> FALSE, deepspeed |-> FALSE,
     args |-> [n_gpu |-> args.n_gpu,
               gradient_accumulation_steps |-> args.gradient_accumulation_steps]]

\* What the program prints and logs.
PrintFold(n) == [level |-> "PRINT", msg |-> "Fold", fold |-> n]
FilteredOut(split, n) ==
    [level |-> "WARNING", msg |-> "Filtered out", split |-> split, n |-> n]
SplitSizes(ntrain, nval) ==
    [level |-> "INFO", msg |-> "Split sizes", train |-> ntrain, val |-> nval]
UpdatedTranscripts(n) ==
    [level |-> "WARNING", msg |-> "Updated transcripts", count |-> n]
UpdatedText(pair) ==
    [level |-> "DEBUG", msg |-> "Updated text", original |-> pair[1], updated |-> pair[2]]

Raise(type, cause) == [type |-> type, cause |-> cause]

(***************************************************************************)
(* The values the variables of main() hold when main() is not running.     *)
(***************************************************************************)
NoError == [type |-> NoException, cause |-> ""]

MainIdle ==
    /\ pc = "idle"
    /\ model_args = [verbose_logging |-> TRUE]
    /\ data_args = [orthography |-> "librispeech",
                    target_feature_extractor_sampling_rate |-> FALSE,
                    max_duration_in_seconds |-> None]
    /\ training_args = [output_dir |-> << >>, n_gpu |-> 1,
                        gradient_accumulation_steps |-> 1]
    /\ df = << >>
    /\ base_dir = << >>
    /\ i = 0
    /\ loaded = {}
    /\ train_dataset = << >>
    /\ val_dataset = << >>
    /\ mapped = << >>
    /\ target_sr = None
    /\ text_updates = None
    /\ log = << >>
    /\ trainers = << >>
    /\ steps = 0
    /\ error = NoError

noErrVars == <<pc, model_args, data_args, training_args, df, base_dir, i, loaded,
               train_dataset, val_dataset, mapped, target_sr, text_updates,
               log, trainers, steps>>
idleVars == <<noErrVars, error>>

IdleConfig == [ctc_loss_reduction |-> "mean"]
IdleTrainer ==
    [use_cuda_amp |-> FALSE, use_apex |-> FALSE, deepspeed |-> FALSE,
     args |-> [n_gpu |-> 1, gradient_accumulation_steps |-> 1]]

(***************************************************************************)
(* Spec: main() from the parsed arguments to the end of the fold loop.     *)
(***************************************************************************)
Bases == {<<"r", "u", "n">>, <<"o">>}
MaxDurations == {None, Some(R(0, 1)), Some(R(2, 16000))}
MainReductions == {"mean", "max"}

Init ==
    /\ pc = "from_name"
    /\ model_args \in [verbose_logging : BOOLEAN]
    /\ data_args \in [orthography : OrthographyNames,
                      target_feature_extractor_sampling_rate : BOOLEAN,
                      max_duration_in_seconds : MaxDurations]
    /\ base_dir \in Bases
    /\ training_args \in [output_dir : {base_dir}, n_gpu : 1..MaxGpu,
                          gradient_accumulation_steps : {1}]
    /\ model_config \in [ctc_loss_reduction : MainReductions]
    /\ df \in Corpora
    /\ orthography = None
    /\ i = 0
    /\ loaded = {}
    /\ train_dataset = << >>
    /\ val_dataset = << >>
    /\ mapped = << >>
    /\ target_sr = None
    /\ text_updates = None
    /\ log = << >>
    /\ trainers = << >>
    /\ steps = 0
    /\ error = NoError
    /\ pp_name = ""
    /\ pp_trace = << >>
    /\ features = << >>
    /\ batch = NoBatch
    /\ trainer = IdleTrainer
    /\ step = NoStep

\* Line 355: orthography = Orthography.from_name(data_args.orthography.lower())
CallFromName ==
    /\ pc = "from_name"
    /\ LET o == FromName(Lower(data_args.orthography))
       IN  IF o = None
           THEN /\ error' = Raise("ValueError", "orthography")
                /\ pc' = "raised"
                /\ UNCHANGED <<orthography, i>>
           ELSE /\ orthography' = o
                /\ i' = FirstFold
                /\ pc' = "fold_head"
                /\ UNCHANGED error
    /\ UNCHANGED <<model_args, data_args, training_args, model_config, df, base_dir,
                   loaded, train_dataset, val_dataset, mapped, target_sr,
                   text_updates, log, trainers, steps, orthVars, collVars, stepVars>>

\* Lines 357-386: a fold begins: the processor and the model are loaded, the
\* corpus is split, target_sr is set and the text-change log is emptied.
FoldBegin ==
    /\ pc = "fold_head"
    /\ i < K
    /\ log' = Append(log, PrintFold(i))
    /\ loaded' = loaded \cup {i}
    /\ train_dataset' = SelectSeq(df, LAMBDA row : row.split # i)
    /\ val_dataset' = SelectSeq(df, LAMBDA row : row.split = i)
    /\ target_sr' = IF data_args.target_feature_extractor_sampling_rate
                    THEN Some(FeatureExtractorSamplingRate)
                    ELSE None
    /\ text_updates' = Some(<< >>)
    /\ mapped' = << >>
    /\ steps' = 0
    /\ pc' = "map_train"
    /\ UNCHANGED <<model_args, data_args, training_args, model_config, df, base_dir,
                   orthography, i, trainers, error, orthVars, collVars, stepVars>>

\* The loop of line 357 has run through range(2, k).
LoopExit ==
    /\ pc = "fold_head"
    /\ i >= K
    /\ pc' = "done"
    /\ UNCHANGED <<model_args, data_args, training_args, model_config, df, base_dir,
                   orthography, i, loaded, train_dataset, val_dataset, mapped,
                   target_sr, text_updates, log, trainers, steps, error,
                   orthVars, collVars, stepVars>>

\* A variant that records every example in text_updates, changed or not.
PrepareExample_log_all(dataset) ==
    LET row == dataset[Len(mapped) + 1]
    IN  IF target_sr = None
        THEN /\ error' = Raise("TypeError", "target_sr")
             /\ pc' = "raised"
             /\ UNCHANGED <<mapped, text_updates>>
        ELSE LET example == PreparedExample(row, Val(orthography), Val(target_sr))
             IN  /\ mapped' = Append(mapped, example)
                 /\ text_updates' =
                      Some(Append(Val(text_updates), <<row.text, example.text>>))
                 /\ UNCHANGED <<pc, error>>

\* prepare_example (lines 388-398) on the next row of `dataset`.
PrepareExample(dataset) ==
    LET row == dataset[Len(mapped) + 1]
    IN  IF target_sr = None
        THEN \* line 392: len(...) / None
             /\ error' = Raise("TypeError", "target_sr")
             /\ pc' = "raised"
             /\ UNCHANGED <<mapped, text_updates>>
        ELSE LET example == PreparedExample(row, Val(orthography), Val(target_sr))
             IN  /\ mapped' = Append(mapped, example)
                 /\ text_updates' =
                      IF example.text # row.text
                      THEN Some(Append(Val(text_updates), <<row.text, example.text>>))
                      ELSE text_updates
                 /\ UNCHANGED <<pc, error>>

\* Lines 400-401: train_dataset.map(prepare_example, ...), one row at a time.
MapTrainExample ==
    /\ pc = "map_train"
    /\ Len(mapped) < Len(train_dataset)
    /\ PrepareExample(train_dataset)
    /\ UNCHANGED <<model_args, data_args, training_args, model_config, df, base_dir,
                   orthography, i, loaded, train_dataset, val_dataset, target_sr,
                   log, trainers, steps, orthVars, collVars, stepVars>>

MapTrainDone ==
    /\ pc = "map_train"
    /\ Len(mapped) = Len(train_dataset)
    /\ train_dataset' = mapped
    /\ mapped' = << >>
    /\ pc' = "map_val"
    /\ UNCHANGED <<model_args, data_args, training_args, model_config, df, base_dir,
                   orthography, i, loaded, val_dataset, target_sr, text_updates,
                   log, trainers, steps, error, orthVars, collVars, stepVars>>

\* Lines 402-403: val_dataset.map(prepare_example, ...), one row at a time.
MapValExample ==
    /\ pc = "map_val"
    /\ Len(mapped) < Len(val_dataset)
    /\ PrepareExample(val_dataset)
    /\ UNCHANGED <<model_args, data_args, training_args, model_config, df, base_dir,
                   orthography, i, loaded, train_dataset, val_dataset, target_sr,
                   log, trainers, steps, orthVars, collVars, stepVars>>

MapValDone ==
    /\ pc = "map_val"
    /\ Len(mapped) = Len(val_dataset)
    /\ val_dataset' = mapped
    /\ mapped' = << >>
    /\ pc' = "filter"
    /\ UNCHANGED <<model_args, data_args, training_args, model_config, df, base_dir,
                   orthography, i, loaded, train_dataset, target_sr, text_updates,
                   log, trainers, steps, error, orthVars, collVars, stepVars>>

\* Lines 405-423: the duration filter, its warnings and the split sizes.
FilterDatasets ==
    /\ pc = "filter"
    /\ LET T == data_args.max_duration_in_seconds
           old_train_size == Len(train_dataset)
           old_val_size == Len(val_dataset)
           new_train == SelectSeq(train_dataset,
                                  LAMBDA e : FilterByMaxDuration(e, Val(T)))
           new_val == SelectSeq(val_dataset,
                                LAMBDA e : FilterByMaxDuration(e, Val(T)))
           warn_train == IF Len(new_train) > old_train_size
                         THEN <<FilteredOut("train", Len(new_train) - old_train_size)>>
                         ELSE << >>
           warn_val == IF Len(new_val) > old_val_size
                       THEN <<FilteredOut("validation", Len(new_val) - old_val_size)>>
                       ELSE << >>
       IN  IF T # None
           THEN /\ train_dataset' = new_train
                /\ val_dataset' = new_val
                /\ log' = log \o warn_train \o warn_val
                            \o <<SplitSizes(Len(new_train), Len(new_val))>>
           ELSE /\ UNCHANGED <<train_dataset, val_dataset>>
                /\ log' = Append(log, SplitSizes(old_train_size, old_val_size))
    /\ pc' = "report"
    /\ UNCHANGED <<model_args, data_args, training_args, model_config, df, base_dir,
                   orthography, i, loaded, mapped, target_sr, text_updates,
                   trainers, steps, error, orthVars, collVars, stepVars>>

\* Lines 425-431: the count of updated transcripts, each update at DEBUG
\* level, and text_updates = None.
ReportTextUpdates ==
    /\ pc = "report"
    /\ log' = log \o <<UpdatedTranscripts(Len(Val(text_updates)))>>
                  \o (IF model_args.verbose_logging
                      THEN [k \in DOMAIN Val(text_updates) |->
                              UpdatedText(Val(text_updates)[k])]
                      ELSE << >>)
    /\ text_updates' = None
    /\ pc' = "prepare_dataset"
    /\ UNCHANGED <<model_args, data_args, training_args, model_config, df, base_dir,
                   orthography, i, loaded, train_dataset, val_dataset, mapped,
                   target_sr, trainers, steps, error, orthVars, collVars, stepVars>>

\* Lines 433-457: both datasets mapped through prepare_dataset (every
\* example was decoded at LoadSampleRate, so the assertion holds).
PrepareDatasets ==
    /\ pc = "prepare_dataset"
    /\ train_dataset' = [k \in DOMAIN train_dataset |-> EncodedExample(train_dataset[k])]
    /\ val_dataset' = [k \in DOMAIN val_dataset |-> EncodedExample(val_dataset[k])]
    /\ pc' = "output_dir"
    /\ UNCHANGED <<model_args, data_args, training_args, model_config, df, base_dir,
                   orthography, i, loaded, mapped, target_sr, text_updates, log,
                   trainers, steps, error, orthVars, collVars, stepVars>>

\* Lines 459-504: the collator, the output directory of the fold and the
\* trainer.
SetOutputDir ==
    /\ pc = "output_dir"
    /\ training_args' = [training_args EXCEPT
                            !.output_dir = NextOutputDir(training_args.output_dir, i)]
    /\ trainers' = Append(trainers,
                          [fold |-> i,
                           output_dir |-> NextOutputDir(training_args.output_dir, i)])
    /\ trainer' = MakeTrainer(training_args)
    /\ pc' = "train"
    /\ UNCHANGED <<model_args, data_args, model_config, df, base_dir, orthography,
                   i, loaded, train_dataset, val_dataset, mapped, target_sr,
                   text_updates, log, steps, error, orthVars, collVars, step>>

\* Line 506, inside trainer.train(): the collator makes a batch of the
\* training examples and training_step runs on it.
TrainStep ==
    /\ pc = "train"
    /\ steps < MaxSteps
    /\ train_dataset # << >>
    /\ LET model == WrapModel(model_config, trainer.args.n_gpu)
           b == Collate(DataCollator, train_dataset)
       IN  \E losses \in LossVectors(model, trainer.args.n_gpu, MainLossValues) :
             LET result == TrainingStep(trainer, model, b, losses)
             IN  /\ features' = train_dataset
                 /\ batch' = b
                 /\ step' = result
                 /\ steps' = steps + 1
                 /\ IF result.raised # NoException
                    THEN /\ error' = Raise(result.raised, "reduction")
                         /\ pc' = "raised"
                    ELSE UNCHANGED <<error, pc>>
    /\ UNCHANGED <<model_args, data_args, training_args, model_config, df, base_dir,
                   orthography, i, loaded, train_dataset, val_dataset, mapped,
                   target_sr, text_updates, log, trainers, orthVars, trainer>>

\* Lines 506-509: trainer.train() returns (the prediction pass on the
\* validation data changes nothing here) and the loop goes to the next fold.
FinishFold ==
    /\ pc = "train"
    /\ steps >= 1 \/ train_dataset = << >>
    /\ i' = i + 1
    /\ features' = << >>
    /\ batch' = NoBatch
    /\ step' = NoStep
    /\ pc' = "fold_head"
    /\ UNCHANGED <<model_args, data_args, training_args, model_config, df, base_dir,
                   orthography, loaded, train_dataset, val_dataset, mapped,
                   target_sr, text_updates, log, trainers, steps, error, orthVars,
                   trainer>>

Next ==
    \/ CallFromName
    \/ FoldBegin
    \/ LoopExit
    \/ MapTrainExample
    \/ MapTrainDone
    \/ MapValExample
    \/ MapValDone
    \/ FilterDatasets
    \/ ReportTextUpdates
    \/ PrepareDatasets
    \/ SetOutputDir
    \/ TrainStep
    \/ FinishFold

Spec == Init /\ [][Next]_vars

(***************************************************************************)
(* SpecOrthography: from_name, then preprocess_for_training applied to a   *)
(* transcript and again to each result.                                    *)
(***************************************************************************)
InitOrthography ==
    /\ MainIdle
    /\ pp_name \in OrthographyNames
    /\ pp_trace \in {<<t>> : t \in SeqsUpTo(Chars, MaxLen)}
    /\ orthography = None
    /\ model_config = IdleConfig
    /\ features = << >>
    /\ batch = NoBatch
    /\ trainer = IdleTrainer
    /\ step = NoStep

OrthFromName ==
    /\ orthography = None
    /\ error = NoError
    /\ orthography' = FromName(pp_name)
    /\ error' = IF FromName(pp_name) = None
                THEN [type |-> "ValueError", cause |-> "orthography"]
                ELSE NoError
    /\ UNCHANGED <<noErrVars, pp_name, pp_trace, model_config, collVars, stepVars>>

OrthPreprocess ==
    /\ orthography # None
    /\ Len(pp_trace) <= MaxApply
    /\ pp_trace' = Append(pp_trace,
           PreprocessForTraining(Val(orthography), pp_trace[Len(pp_trace)]))
    /\ UNCHANGED <<idleVars, pp_name, orthography, model_config, collVars, stepVars>>

NextOrthography == OrthFromName \/ OrthPreprocess

SpecOrthography == InitOrthography /\ [][NextOrthography]_vars

(***************************************************************************)
(* SpecCollator: the collator called on a list of examples.                *)
(***************************************************************************)
InitCollator ==
    /\ MainIdle
    /\ pp_name = ""
    /\ pp_trace = << >>
    /\ orthography = None
    /\ model_config = IdleConfig
    /\ features \in FeatureLists
    /\ batch = NoBatch
    /\ trainer = IdleTrainer
    /\ step = NoStep

CallCollator ==
    /\ batch = NoBatch
    /\ batch' = Collate(DataCollator, features)
    /\ UNCHANGED <<idleVars, orthVars, orthography, model_config, features, stepVars>>

NextCollator == CallCollator

SpecCollator == InitCollator /\ [][NextCollator]_vars

(***************************************************************************)
(* SpecStep: one call of training_step by the surrounding Trainer, on a    *)
(* batch the collator made.                                                *)
(***************************************************************************)
TrainerArgs == [n_gpu : 1..MaxGpu, gradient_accumulation_steps : AccumulationSteps]

Trainers == [use_cuda_amp : BOOLEAN, use_apex : BOOLEAN, deepspeed : BOOLEAN,
             args : TrainerArgs]

ModelConfigs == [ctc_loss_reduction : ReductionNames]

StepFeatureLists ==
    { <<Example(1, <<0>>)>>,
      <<Example(1, << >>)>>,
      <<Example(2, <<1, 0>>), Example(1, <<1>>)>>,
      <<Example(1, <<0, 1>>), Example(2, <<1, 1>>)>> }

InitStep ==
    /\ MainIdle
    /\ pp_name = ""
    /\ pp_trace = << >>
    /\ orthography = None
    /\ model_config \in ModelConfigs
    /\ features \in StepFeatureLists
    /\ batch = Collate(DataCollator, features)
    /\ trainer \in Trainers
    /\ step = NoStep

CallTrainingStep ==
    /\ step = NoStep
    /\ LET model == WrapModel(model_config, trainer.args.n_gpu)
       IN  \E losses \in LossVectors(model, trainer.args.n_gpu, LossValues) :
             step' = TrainingStep(trainer, model, batch, losses)
    /\ UNCHANGED <<idleVars, orthVars, orthography, model_config, collVars, trainer>>

NextStep == CallTrainingStep

SpecStep == InitStep /\ [][NextStep]_vars

(***************************************************************************)
(* Properties of the orthography normaliser.                               *)
(***************************************************************************)
\* C6: for each supported orthography name, preprocess_for_training of the
\* policy from_name returns is idempotent: applying it to its own result
\* gives that result again.
PreprocessIdempotent ==
    \A k \in 2..(Len(pp_trace) - 1) : pp_trace[k + 1] = pp_trace[k]

\* A transcript with a hyphen and the stop word, which the first application
\* under "buckwalter" rewrites, has been preprocessed twice.
PreprocessedTwice ==
    /\ pp_name = "buckwalter"
    /\ Len(pp_trace) >= 3
    /\ pp_trace[1] = <<"s", "i", "l", "-">>
    /\ pp_trace[2] = << >>

(***************************************************************************)
(* Properties of the collator.                                             *)
(***************************************************************************)
LongestLabels(feats) == Max({Len(feats[f].labels) : f \in DOMAIN feats})

LabelsPadded(feats, b) ==
    /\ DOMAIN b.labels = DOMAIN feats
    /\ \A f \in DOMAIN feats :
         /\ Len(b.labels[f]) = LongestLabels(feats)
         /\ \A k \in 1..Len(b.labels[f]) :
              IF k <= Len(feats[f].labels)
              THEN b.labels[f][k] = feats[f].labels[k] /\ b.labels[f][k] # IgnoreIndex
              ELSE b.labels[f][k] = IgnoreIndex

\* C9: when the collator (padding to the longest sequence) returns a batch,
\* every label row is as long as the longest label sequence given, holds the
\* example's own ids over the example's span and -100 after it, and the
\* examples given are what they were before the call.
CollatorPadsLabels ==
    [][batch' # batch => features' = features /\ LabelsPadded(features, batch')]_vars

\* A batch of two examples with labels of different lengths, one of which
\* holds the pad token's id as a label, has been collated.
CollatedUnevenBatch ==
    /\ batch # NoBatch
    /\ Len(features) = 2
    /\ features[1].labels = <<1, 0>>
    /\ features[2].labels = <<0>>
    /\ batch.labels = <<(<<1, 0>>), (<<0, IgnoreIndex>>)>>

(***************************************************************************)
(* Properties of training_step.                                            *)
(***************************************************************************)
RatEq(a, b) == (a.den = 0) = (b.den = 0) /\ a.num * b.den = b.num * a.den

StepRan == step # NoStep
StepReturned == StepRan /\ step.raised = NoException

\* The number of label positions of a batch that are not -100.
CountNotIgnored(labels) ==
    SumSeq([r \in DOMAIN labels |->
              Cardinality({k \in DOMAIN labels[r] : labels[r][k] # IgnoreIndex})])

\* C3: a training step whose loss-reduction policy is neither 'mean' nor
\* 'sum' fails with ValueError and has invoked no backward route.
InvalidReductionRaisesValueError ==
    (StepRan /\ model_config.ctc_loss_reduction \notin {"mean", "sum"})
        => (step.raised = "ValueError" /\ step.backward = << >>)

\* C7: with n_gpu > 1 the reduced loss is the mean of the replica losses
\* under 'mean' and their sum divided by the number of label positions that
\* are not -100 under 'sum'; with a single device the loss is unchanged.
LossReduction ==
    StepReturned =>
        LET total == SumSeq(step.computed)
            reduced == Val(step.reduced)
        IN  IF trainer.args.n_gpu > 1
            THEN /\ model_config.ctc_loss_reduction = "mean"
                      => RatEq(reduced, R(total, Len(step.computed)))
                 /\ model_config.ctc_loss_reduction = "sum"
                      => RatEq(reduced, R(total, CountNotIgnored(batch.labels)))
                 /\ model_config.ctc_loss_reduction \in {"mean", "sum"}
            ELSE reduced = R(step.computed[1], 1)

\* Two replicas returned the losses 2 and 4 under 'sum' for a batch whose
\* labels hold three ids (one of them 0) and one -100.
SumReducedOverReplicas ==
    /\ StepReturned
    /\ trainer.args.n_gpu = 2
    /\ model_config.ctc_loss_reduction = "sum"
    /\ step.computed = <<2, 4>>
    /\ batch.labels = <<(<<1, 0>>), (<<1, IgnoreIndex>>)>>
    /\ RatEq(Val(step.reduced), R(2, 1))

\* C8: with gradient_accumulation_steps = n > 1 and reduced loss L the step
\* passes L/n to the backward route and returns L/n; with n <= 1 it passes
\* and returns L.
AccumulationScaling ==
    StepReturned =>
        LET n == trainer.args.gradient_accumulation_steps
            L == Val(step.reduced)
            expected == IF n > 1 THEN R(L.num, L.den * n) ELSE L
        IN  /\ Len(step.backward) = 1
            /\ RatEq(step.backward[1].loss, expected)
            /\ RatEq(Val(step.returned), expected)
            /\ n <= 1 => step.backward[1].loss = L /\ Val(step.returned) = L

\* A step with gradient_accumulation_steps = 4 and loss 2 backpropagated and
\* returned 1/2.
ScaledByFour ==
    /\ StepReturned
    /\ trainer.args.gradient_accumulation_steps = 4
    /\ RatEq(Val(step.reduced), R(2, 1))
    /\ RatEq(step.backward[1].loss, R(1, 2))
    /\ RatEq(Val(step.returned), R(1, 2))

\* The calls of compute_loss in a step, and those made between the entry
\* to and the exit from the autocast region.
LossCalls == {k \in DOMAIN step.calls : step.calls[k] = "compute_loss"}
LossCallsInAutocast ==
    {k \in LossCalls :
        /\ \E e \in 1..(k - 1) :
             /\ step.calls[e] = "autocast.enter"
             /\ \A x \in (e + 1)..(k - 1) : step.calls[x] # "autocast.exit"
        /\ \E x \in (k + 1)..Len(step.calls) : step.calls[x] = "autocast.exit"}

\* C11: a training step that does not raise invokes exactly one backward
\* route, once: the scaler's if use_cuda_amp, else apex's if use_apex, else
\* deepspeed's if deepspeed is active, else the plain one; and it computes
\* the loss inside an autocast region if and only if use_cuda_amp is set.
OneBackwardRouteByPriority ==
    StepReturned =>
        /\ Len(step.backward) = 1
        /\ step.backward[1].route =
             (IF trainer.use_cuda_amp THEN "scaler"
              ELSE IF trainer.use_apex THEN "apex"
              ELSE IF trainer.deepspeed THEN "deepspeed"
              ELSE "plain")
        /\ Cardinality(LossCalls) = 1
        /\ (LossCallsInAutocast = LossCalls) = trainer.use_cuda_amp
        /\ (LossCallsInAutocast = {}) = ~trainer.use_cuda_amp

\* A step of a trainer with use_cuda_amp, use_apex and deepspeed all set
\* computed its loss under autocast and went through the scaler alone.
ScalerChosenOverApexAndDeepspeed ==
    /\ StepReturned
    /\ trainer.use_cuda_amp /\ trainer.use_apex /\ trainer.deepspeed
    /\ step.backward = <<[route |-> "scaler", loss |-> Val(step.returned)]>>
    /\ LossCallsInAutocast # {}

(***************************************************************************)
(* Properties of main().                                                   *)
(***************************************************************************)
Contains(s, sub) ==
    \E k \in 1..(Len(s) - Len(sub) + 1) : SubSeq(s, k, k + Len(sub) - 1) = sub

\* C1: from a base output directory B without a fold suffix, the directory
\* used for every fold i that runs is B + "_fold_" + str(i), so no two folds
\* of a run use the same directory.
FoldDirsSuffixed ==
    ~Contains(base_dir, <<"_", "f", "o", "l", "d", "_">>) =>
        /\ \A t \in DOMAIN trainers :
             trainers[t].output_dir = base_dir \o FoldSuffix(trainers[t].fold)
        /\ \A t, u \in DOMAIN trainers :
             t # u => trainers[t].output_dir # trainers[u].output_dir

\* The part of the log written since the current fold began.
FoldLog ==
    LET heads == {k \in DOMAIN log : log[k].msg = "Fold"}
    IN  IF heads = {} THEN log ELSE SubSeq(log, Max(heads) + 1, Len(log))

Filtered == pc \in {"report", "prepare_dataset", "output_dir", "train"}

RowsOf(split) ==
    IF split = "train"
    THEN SelectSeq(df, LAMBDA row : row.split # i)
    ELSE SelectSeq(df, LAMBDA row : row.split = i)

DatasetOf(split) == IF split = "train" THEN train_dataset ELSE val_dataset

FilterWarnings(split) ==
    {k \in DOMAIN FoldLog :
        FoldLog[k].msg = "Filtered out" /\ FoldLog[k].split = split}

\* C2: with a max-duration threshold, once a fold's datasets are filtered
\* the log of the fold holds, for each split, one warning with the number
\* of examples removed (rows of the split minus examples retained) when that
\* number is positive, and no such warning when it is zero.
FilterWarnsRemovedCount ==
    (Filtered /\ data_args.max_duration_in_seconds # None) =>
        \A split \in {"train", "validation"} :
            LET removed == Len(RowsOf(split)) - Len(DatasetOf(split))
            IN  IF removed > 0
                THEN /\ Cardinality(FilterWarnings(split)) = 1
                     /\ \A k \in FilterWarnings(split) : FoldLog[k].n = removed
                ELSE FilterWarnings(split) = {}

NoFoldStarted ==
    /\ loaded = {}
    /\ train_dataset = << >> /\ val_dataset = << >> /\ mapped = << >>
    /\ training_args.output_dir = base_dir
    /\ trainers = << >>
    /\ steps = 0 /\ step = NoStep

ConfigurationError == error.cause \in {"orthography", "reduction"}

\* C4 as stated: when a configuration error (unsupported orthography name,
\* invalid loss-reduction policy) occurs, no fold has loaded a model,
\* prepared or filtered examples, set an output directory or run a step.
ConfigErrorsBeforeFolds == ConfigurationError => NoFoldStarted

\* C4, amended: with an unsupported orthography name the program ends in
\* the error of from_name with no fold started; the error of an invalid
\* loss-reduction policy arises only in a training step with n_gpu > 1 of a
\* fold that has loaded its model, prepared its examples and set its
\* output directory.
ConfigErrorTiming ==
    /\ Lower(data_args.orthography) \notin SupportedNames =>
         /\ NoFoldStarted
         /\ pc = "from_name" \/ (pc = "raised" /\ error = Raise("ValueError", "orthography"))
    /\ error.cause = "orthography" => Lower(data_args.orthography) \notin SupportedNames
    /\ error.cause = "reduction" =>
         /\ model_config.ctc_loss_reduction \notin {"mean", "sum"}
         /\ training_args.n_gpu > 1
         /\ i \in loaded
         /\ trainers # << >> /\ trainers[Len(trainers)].fold = i
         /\ steps >= 1 /\ step.raised # NoException /\ step.backward = << >>

\* from_name has raised for the name "common_voice".
UnsupportedNameRaised ==
    /\ pc = "raised"
    /\ data_args.orthography = "common_voice"
    /\ error = Raise("ValueError", "orthography")

\* The examples prepare_example makes of the rows of a split.
PreparedRows(split) ==
    [k \in DOMAIN RowsOf(split) |->
        PreparedExample(RowsOf(split)[k], Val(orthography), Val(target_sr))]

\* C5: the filter retains exactly the prepared examples whose
\* duration_in_seconds is at most the threshold (one equal to it included),
\* in their order, so the sizes are those counts; without a threshold it
\* retains every example.
FilterRetainsWithinThreshold ==
    pc = "report" =>
        \A split \in {"train", "validation"} :
            LET T == data_args.max_duration_in_seconds
                within(e) == e.duration_in_seconds.num * Val(T).den
                                <= Val(T).num * e.duration_in_seconds.den
            IN  IF T = None
                THEN DatasetOf(split) = PreparedRows(split)
                ELSE /\ DatasetOf(split) = SelectSeq(PreparedRows(split), within)
                     /\ Len(DatasetOf(split)) =
                          Cardinality({k \in DOMAIN PreparedRows(split) :
                                          within(PreparedRows(split)[k])})

\* With the threshold 2/16000 s, the training split held examples of 1, 2
\* and 3 samples; the filter kept the first two and removed the third.
BoundaryExampleRetained ==
    /\ pc = "report"
    /\ data_args.max_duration_in_seconds = Some(R(2, 16000))
    /\ Len(RowsOf("train")) = 3
    /\ Len(train_dataset) = 2
    /\ train_dataset[2].duration_in_seconds = R(2, 16000)

IsPrepared(e) == "duration_in_seconds" \in DOMAIN e

PreparedExamples ==
    {e \in {mapped[k] : k \in DOMAIN mapped}
           \cup {train_dataset[k] : k \in DOMAIN train_dataset}
           \cup {val_dataset[k] : k \in DOMAIN val_dataset} : IsPrepared(e)}

\* C10: for either setting of target_feature_extractor_sampling_rate,
\* prepare_example succeeds on every example, and duration_in_seconds is the
\* number of decoded samples divided by the example's sampling_rate.
PrepareExampleSucceeds ==
    /\ error.cause # "target_sr"
    /\ \A e \in PreparedExamples :
         RatEq(e.duration_in_seconds, R(Len(e.speech), e.sampling_rate))

\* The fold whose part of the log FoldLog is: the loop variable, or the
\* fold before it once the loop has moved on.
LoggedFold == IF pc \in {"fold_head", "done"} THEN i - 1 ELSE i

TrainRows(n) == SelectSeq(df, LAMBDA row : row.split # n)
ValRows(n) == SelectSeq(df, LAMBDA row : row.split = n)

\* The rows of fold n that have been through prepare_example, in the order
\* they went through it.
RowsPrepared(n) ==
    IF pc = "map_train" THEN SubSeq(TrainRows(n), 1, Len(mapped))
    ELSE IF pc = "map_val" THEN TrainRows(n) \o SubSeq(ValRows(n), 1, Len(mapped))
    ELSE IF pc = "raised" /\ error.cause = "target_sr" THEN << >>
    ELSE TrainRows(n) \o ValRows(n)

CleanedText(row) == CleanText(PreprocessForTraining(Val(orthography), row.text))

\* The (original, cleaned) pairs of the rows whose cleaned text differs.
RECURSIVE ChangedPairs(_)
ChangedPairs(rows) ==
    IF rows = << >> THEN << >>
    ELSE (IF CleanedText(rows[1]) # rows[1].text
          THEN <<(<<rows[1].text, CleanedText(rows[1])>>)>>
          ELSE << >>) \o ChangedPairs(Tail(rows))

Preparing == pc \in {"map_train", "map_val", "filter", "report"}

AggregateEntries == {k \in DOMAIN FoldLog : FoldLog[k].msg = "Updated transcripts"}
DetailEntries == {k \in DOMAIN FoldLog : FoldLog[k].msg = "Updated text"}

\* C12: within a fold, text_updates holds one (original, cleaned) pair for
\* exactly the examples prepared so far whose cleaned text differs from the
\* original, every example prepared is kept with its cleaned text, and the
\* "Updated N transcript(s)" message and the per-item details appear in the
\* fold's log only once every example of both splits is prepared, with N
\* the number of changed examples of that fold alone.
TextUpdatesReportedPerFold ==
    /\ Preparing =>
         /\ text_updates = Some(ChangedPairs(RowsPrepared(i)))
         /\ AggregateEntries = {} /\ DetailEntries = {}
    /\ pc \in {"map_train", "map_val"} =>
         \A k \in DOMAIN mapped :
            mapped[k].text = CleanedText(
               (IF pc = "map_train" THEN TrainRows(i) ELSE ValRows(i))[k])
    /\ (pc = "raised" /\ error.cause = "target_sr") =>
         AggregateEntries = {} /\ DetailEntries = {}
    /\ error.cause \in {"", "orthography", "target_sr", "reduction"}
    /\ AggregateEntries # {} =>
         LET pairs == ChangedPairs(TrainRows(LoggedFold) \o ValRows(LoggedFold))
             u == Max(AggregateEntries)
         IN  /\ Cardinality(AggregateEntries) = 1
             /\ FoldLog[u].count = Len(pairs)
             /\ DetailEntries =
                  (IF model_args.verbose_logging THEN (u + 1)..(u + Len(pairs)) ELSE {})
             /\ \A k \in DetailEntries : FoldLog[k] = UpdatedText(pairs[k - u])
    /\ DetailEntries # {} => AggregateEntries # {}

\* The second fold that runs (fold 3) under "buckwalter" with verbose
\* logging has reported its own two updates, "sil" -> "" and
\* "s-l" -> "s l", after the first fold reported the same two.
SecondFoldReportedItsUpdates ==
    /\ pc = "prepare_dataset"
    /\ i = FirstFold + 1
    /\ data_args.orthography = "buckwalter"
    /\ model_args.verbose_logging
    /\ \E k \in AggregateEntries :
         /\ FoldLog[k] = UpdatedTranscripts(2)
         /\ \E d \in DetailEntries :
              d > k /\ FoldLog[d] = UpdatedText(<<(<<"s", "i", "l">>), << >>>>)
    /\ Cardinality({k \in DOMAIN log : log[k].msg = "Updated transcripts"}) = 2

====
